---- MODULE Spec2Model ----
(***************************************************************************)
(* Model of the selection-bias pipeline: the mask compositor               *)
(* create_masked_stipple (step5_create_masked.py) and the typeface         *)
(* selection of create_block_letter_s (step4_create_block_letter.py).      *)
(*                                                                         *)
(* Samples are fixed-point: the integer v stands for the float v / Scale,  *)
(* so 0 is 0.0 (a stipple), Scale is 1.0 (white) and thresholds range over *)
(* the same grid, one step below 0.0 and one step above 1.0 included.      *)
(* An ndarray is a heap object [shape, data] with data in row-major order; *)
(* variables of the program hold references (indices into heap).           *)
(***************************************************************************)
EXTENDS Integers, Sequences, FiniteSets

\* ---------------------------------------------------------------- bounds
MaxCells == 2
Scale == 2
MaxCalls == 2

\* ------------------------------------------------------------- variables
VARIABLES heap, pc, calls, stipple_img, mask_img, threshold,
          ret, removed_count, total_stipples, raised,
          font_files, arial_loads, default_loads, font, font_pc

compose_vars == <<heap, pc, calls, stipple_img, mask_img, threshold,
                  ret, removed_count, total_stipples, raised>>
font_vars == <<font_files, arial_loads, default_loads, font, font_pc>>
vars == <<compose_vars, font_vars>>

\* ------------------------------------------------- sample values, arrays
White == Scale
Black == 0
Samples == 0..Scale
Thresholds == (0 - 1)..(Scale + 1)

Shapes == {s \in (1..MaxCells) \X (1..MaxCells) : s[1] * s[2] <= MaxCells}

Arrays == UNION {[shape : {s}, data : [1..(s[1] * s[2]) -> Samples]] : s \in Shapes}

NoError == [type |-> "None", stipple_shape |-> <<>>, mask_shape |-> <<>>]

\* ------------------------------------------------ numpy array primitives
RECURSIVE np_sum(_)
np_sum(b) ==
    IF b = <<>> THEN 0
    ELSE (IF Head(b) THEN 1 ELSE 0) + np_sum(Tail(b))

np_less(a, t) == [i \in 1..Len(a.data) |-> a.data[i] < t]

np_equal(a, v) == [i \in 1..Len(a.data) |-> a.data[i] = v]

np_and(b1, b2) == [i \in 1..Len(b1) |-> b1[i] /\ b2[i]]

\* masked_stipple = stipple_img: a second name for the caller's object
copy_alias(h, r) == [heap |-> h, ref |-> r]

\* stipple_img.copy(): a fresh object holding the same samples
copy(h, r) == [heap |-> Append(h, h[r]), ref |-> Len(h) + 1]

\* mask_img > threshold: the comparison the wrong way round
mask_region_inverted(h, m, t) == [i \in 1..Len(h[m].data) |-> h[m].data[i] > t]

\* mask_img <= threshold: samples equal to the threshold masked too
mask_region_le(h, m, t) == [i \in 1..Len(h[m].data) |-> h[m].data[i] <= t]

\* mask_img < np.clip(threshold, 0.0, 1.0): the threshold forced into range
mask_region_clamped(h, m, t) ==
    np_less(h[m], IF t < Black THEN Black ELSE IF t > White THEN White ELSE t)

\* mask_region = mask_img < threshold
mask_region(h, m, t) == np_less(h[m], t)

\* masked_stipple[:] = 1.0: the region ignored
setitem_everywhere(h, r, region) ==
    [h EXCEPT ![r].data = [i \in 1..Len(@) |-> White]]

\* masked_stipple[mask_region] = 0.0: the masked samples inked, not blanked
setitem_black(h, r, region) ==
    [h EXCEPT ![r].data = [i \in 1..Len(@) |-> IF region[i] THEN Black ELSE @[i]]]

\* masked_stipple[mask_region] = 1.0, a write through the reference r
setitem(h, r, region) ==
    [h EXCEPT ![r].data = [i \in 1..Len(@) |-> IF region[i] THEN White ELSE @[i]]]

\* np.sum(mask_region): every masked sample counted, stipple or not
removed_count_all_masked(h, s, region) == np_sum(region)

\* removed_count = np.sum((stipple_img == 0.0) & mask_region)
removed_count_of(h, s, region) == np_sum(np_and(np_equal(h[s], Black), region))

\* np.sum(stipple_img < 1.0): every non-white sample counted as a stipple
total_stipples_nonwhite(h, s) == np_sum(np_less(h[s], White))

\* total_stipples = np.sum(stipple_img == 0.0)
total_stipples_of(h, s) == np_sum(np_equal(h[s], Black))

\* stipple_img.size != mask_img.size: the element counts compared, not the shapes
shapes_differ_size(h, s, m) == Len(h[s].data) # Len(h[m].data)

shapes_differ(h, s, m) == h[s].shape # h[m].shape

ValueError(h, s, m) ==
    [type |-> "ValueError", stipple_shape |-> h[s].shape, mask_shape |-> h[m].shape]

\* The body of create_masked_stipple as a function of the heap and its
\* arguments: the heap it leaves, what it returns or raises, and its locals.
create_masked_stipple(h, s, m, t) ==
    IF shapes_differ(h, s, m)
    THEN [heap |-> h, pc |-> "raised", ret |-> <<>>, raised |-> ValueError(h, s, m),
          removed_count |-> 0, total_stipples |-> 0]
    ELSE LET c      == copy(h, s)
             region == mask_region(c.heap, m, t)
             h2     == setitem(c.heap, c.ref, region)
         IN  [heap |-> h2, pc |-> "returned", ret |-> <<c.ref>>, raised |-> NoError,
              removed_count |-> removed_count_of(h2, s, region),
              total_stipples |-> total_stipples_of(h2, s)]

\* ---------------------------------------------------------------- actions
Invoke(s, m, t) ==
    \E r \in {create_masked_stipple(heap, s, m, t)} :
        /\ heap' = r.heap
        /\ pc' = r.pc
        /\ calls' = calls + 1
        /\ stipple_img' = s
        /\ mask_img' = m
        /\ threshold' = t
        /\ ret' = r.ret
        /\ removed_count' = r.removed_count
        /\ total_stipples' = r.total_stipples
        /\ raised' = r.raised

\* A caller applies the mask to two of its fields at some threshold.
Compose ==
    /\ pc = "idle"
    /\ \E s \in DOMAIN heap, m \in DOMAIN heap, t \in Thresholds : Invoke(s, m, t)
    /\ UNCHANGED font_vars

\* A caller applies the same mask and threshold again to the field it got back.
Recompose ==
    /\ pc = "returned"
    /\ calls < MaxCalls
    /\ Invoke(ret[1], mask_img, threshold)
    /\ UNCHANGED font_vars

\* ------------------------------------------- typeface selection (step 4)
font_paths ==
    << "C:/Windows/Fonts/arialbd.ttf",
       "C:/Windows/Fonts/calibrib.ttf",
       "C:/Windows/Fonts/timesbd.ttf",
       "C:/Windows/Fonts/impact.ttf",
       "/System/Library/Fonts/Supplemental/Arial Bold.ttf",
       "/System/Library/Fonts/Helvetica.ttc",
       "/Library/Fonts/Arial Bold.ttf",
       "/usr/share/fonts/truetype/dejavu/DejaVuSans-Bold.ttf",
       "/usr/share/fonts/truetype/liberation/LiberationSans-Bold.ttf" >>

FontPathSet == {font_paths[i] : i \in DOMAIN font_paths}

\* A candidate path is absent, present but not loadable, or loadable.
FileStates == {"missing", "corrupt", "ok"}

os_path_exists(fs, p) == fs[p] # "missing"

\* ImageFont.truetype(p, font_size) returns a font rather than raising
truetype_loads(fs, p) == fs[p] = "ok"

\* the loop without its break: the last loadable candidate wins
RECURSIVE try_font_paths_nobreak(_, _)
try_font_paths_nobreak(fs, i) ==
    IF i > Len(font_paths) THEN "None"
    ELSE LET rest == try_font_paths_nobreak(fs, i + 1)
         IN  IF rest # "None" THEN rest
             ELSE IF os_path_exists(fs, font_paths[i]) /\ truetype_loads(fs, font_paths[i])
                  THEN font_paths[i]
                  ELSE "None"

\* for font_path in font_paths: ... break / continue, from index i on
RECURSIVE try_font_paths(_, _)
try_font_paths(fs, i) ==
    IF i > Len(font_paths) THEN "None"
    ELSE IF os_path_exists(fs, font_paths[i])
         THEN IF truetype_loads(fs, font_paths[i])
              THEN font_paths[i]
              ELSE try_font_paths(fs, i + 1)
         ELSE try_font_paths(fs, i + 1)

\* if font is None: try truetype("arial.ttf") except: load_default()
fallback_font(f, arial, dflt) ==
    IF f # "None" THEN [font |-> f, pc |-> "done"]
    ELSE IF arial THEN [font |-> "arial.ttf", pc |-> "done"]
    ELSE IF dflt THEN [font |-> "load_default", pc |-> "done"]
    ELSE [font |-> "None", pc |-> "raised"]

\* The typeface selection of create_block_letter_s.
SelectFont ==
    /\ font_pc = "idle"
    /\ LET r == fallback_font(try_font_paths(font_files, 1), arial_loads, default_loads)
       IN  /\ font' = r.font
           /\ font_pc' = r.pc
    /\ UNCHANGED <<font_files, arial_loads, default_loads>>
    /\ UNCHANGED compose_vars

FontIdle ==
    /\ font_files = <<>>
    /\ arial_loads = FALSE
    /\ default_loads = FALSE
    /\ font = "None"
    /\ font_pc = "idle"

ComposeIdle(h) ==
    /\ heap = h
    /\ pc = "idle"
    /\ calls = 0
    /\ stipple_img = 0
    /\ mask_img = 0
    /\ threshold = 0
    /\ ret = <<>>
    /\ removed_count = 0
    /\ total_stipples = 0
    /\ raised = NoError

\* The compositor's caller holds two fields of any shapes and samples.
Init ==
    /\ \E h \in [1..2 -> Arrays] : ComposeIdle(h)
    /\ FontIdle

Next == Compose \/ Recompose

Spec == Init /\ [][Next]_vars

\* The rasterizer runs on a machine with any set of installed typefaces.
InitFont ==
    /\ ComposeIdle(<<>>)
    /\ font_files \in [FontPathSet -> FileStates]
    /\ arial_loads \in BOOLEAN
    /\ default_loads \in BOOLEAN
    /\ font = "None"
    /\ font_pc = "idle"

NextFont == SelectFont

SpecFont == InitFont /\ [][NextFont]_vars

\* ------------------------------------------------------------ properties
Returned == pc = "returned"
Stippled == heap[stipple_img]
Mask == heap[mask_img]
Output == heap[ret[1]]
Cells == 1..Len(Mask.data)
Masked(i) == Mask.data[i] < threshold
AllMasked == \A i \in Cells : Masked(i)
InkCells == {i \in Cells : Stippled.data[i] = Black}

\* C1: whenever the compositor returns, the output has the shape of the
\* stippled field and, at every coordinate whose mask sample is at or above
\* the threshold, the output sample equals the stippled sample.
C1_ShapeAndPassThrough ==
    Returned =>
        /\ Output.shape = Stippled.shape
        /\ Len(Output.data) = Len(Stippled.data)
        /\ \A i \in Cells : Mask.data[i] >= threshold => Output.data[i] = Stippled.data[i]

C1_Witness ==
    /\ Returned
    /\ \E i \in Cells : ~Masked(i) /\ Stippled.data[i] = Black /\ Output.data[i] = Black
    /\ \E i \in Cells : Masked(i) /\ Stippled.data[i] # White

\* C2: whenever the compositor returns, the output sample is 1.0 at every
\* coordinate whose mask sample is below the threshold, whatever the stippled
\* sample there.
C2_MaskedIsWhite ==
    Returned => \A i \in Cells : Mask.data[i] < threshold => Output.data[i] = White

C2_Witness ==
    /\ Returned
    /\ \E i \in Cells : Masked(i) /\ Stippled.data[i] = Black /\ Output.data[i] = White
    /\ \E i \in Cells : ~Masked(i)

\* C3: no step of the compositor changes an object that existed before the
\* call (the stippled field and the mask among them), and the field it
\* returns is an object that did not exist before the call.
C3_InputsUntouched ==
    [][ /\ \A r \in DOMAIN heap : r \in DOMAIN heap' /\ heap'[r] = heap[r]
        /\ pc' = "returned" => ret'[1] \notin DOMAIN heap ]_vars

C3_Witness ==
    /\ Returned
    /\ AllMasked
    /\ InkCells # {}
    /\ ret[1] \notin {stipple_img, mask_img}
    /\ Output.data # Stippled.data

\* C4 as stated: a call with fields of different shapes fails with a
\* ShapeMismatchError carrying both shapes and produces no output field.
C4_ShapeMismatchError ==
    (calls > 0 /\ Stippled.shape # Mask.shape) =>
        /\ pc = "raised"
        /\ raised.type = "ShapeMismatchError"
        /\ raised.stipple_shape = Stippled.shape
        /\ raised.mask_shape = Mask.shape
        /\ ret = <<>>

\* C4 as amended: a call with fields of different shapes fails with a
\* ValueError carrying both shapes; it returns nothing, allocates no field
\* and leaves every existing field as it was.
C4_ValueError ==
    [][ (calls' = calls + 1 /\ heap[stipple_img'].shape # heap[mask_img'].shape) =>
            /\ pc' = "raised"
            /\ raised'.type = "ValueError"
            /\ raised'.stipple_shape = heap[stipple_img'].shape
            /\ raised'.mask_shape = heap[mask_img'].shape
            /\ ret' = <<>>
            /\ heap' = heap ]_vars

C4_Witness ==
    /\ pc = "raised"
    /\ Stippled.shape = <<1, 2>>
    /\ Mask.shape = <<2, 1>>
    /\ raised = [type |-> "ValueError", stipple_shape |-> <<1, 2>>, mask_shape |-> <<2, 1>>]
    /\ Len(heap) = 2

\* C5 as stated: the compositor returns a CompositionResult, the output
\* field together with total_ink_samples and removed_ink_samples.
C5_ReturnsCounts ==
    Returned =>
        /\ Len(ret) = 3
        /\ ret[2] = Cardinality(InkCells)
        /\ ret[3] = Cardinality({i \in InkCells : Masked(i)})

\* C5 as amended: the compositor returns the output field alone; the two
\* counts are locals, total_stipples being the exact number of coordinates
\* where stippled = 0.0 and removed_count the exact number of coordinates
\* where stippled = 0.0 and mask < threshold.
C5_CountsAreLocals ==
    Returned =>
        /\ Len(ret) = 1
        /\ ret[1] \in DOMAIN heap
        /\ total_stipples = Cardinality(InkCells)
        /\ removed_count = Cardinality({i \in InkCells : Masked(i)})

C5_Witness ==
    /\ Returned
    /\ total_stipples = 2
    /\ removed_count = 1
    /\ \E i \in Cells : Stippled.data[i] = Black /\ ~Masked(i)

\* C6: whenever the compositor returns, 0 <= removed_count <= total_stipples,
\* the two are equal when every coordinate is masked, and both are 0 when the
\* stippled field has no sample equal to 0.0.
C6_CountBounds ==
    Returned =>
        /\ 0 <= removed_count
        /\ removed_count <= total_stipples
        /\ AllMasked => removed_count = total_stipples
        /\ InkCells = {} => (total_stipples = 0 /\ removed_count = 0)

C6_Witness ==
    /\ Returned
    /\ AllMasked
    /\ InkCells # {}
    /\ \E i \in Cells : Stippled.data[i] \notin {Black, White}
    /\ removed_count = total_stipples

\* C7: a coordinate whose mask sample equals the threshold is not masked: its
\* output sample equals the stippled sample, and removed_count counts no
\* stipple lying on such a coordinate.
C7_StrictComparison ==
    Returned =>
        /\ \A i \in Cells : Mask.data[i] = threshold => Output.data[i] = Stippled.data[i]
        /\ removed_count <= Cardinality({i \in InkCells : Mask.data[i] # threshold})

C7_Witness ==
    /\ Returned
    /\ \E i \in Cells :
          Mask.data[i] = threshold /\ Stippled.data[i] = Black /\ Output.data[i] = Black
    /\ removed_count = 0

\* C8: a call with same-shape fields and a threshold <= 0 or > 1 returns
\* rather than raises; with threshold <= 0 the output equals the stippled
\* field everywhere, with threshold > 1 the output is 1.0 everywhere.
C8_OutOfRangeThreshold ==
    /\ (calls > 0 /\ Stippled.shape = Mask.shape /\ (threshold <= Black \/ threshold > White))
          => Returned
    /\ (Returned /\ threshold <= Black) => Output.data = Stippled.data
    /\ (Returned /\ threshold > White) => \A i \in Cells : Output.data[i] = White

C8_Witness ==
    /\ Returned
    /\ threshold > White
    /\ \E i \in Cells : Mask.data[i] = White /\ Stippled.data[i] = Black
    /\ \A i \in Cells : Output.data[i] = White

\* C9: the rasterizer uses the first candidate of font_paths that exists and
\* loads; with no such candidate it uses "arial.ttf" if that loads, else the
\* platform default; the call fails only when none of these can be obtained.
Loadable == {i \in DOMAIN font_paths : font_files[font_paths[i]] = "ok"}
FirstLoadable == CHOOSE i \in Loadable : \A j \in Loadable : i <= j

C9_FontFallback ==
    font_pc # "idle" =>
        /\ Loadable # {} => (font_pc = "done" /\ font = font_paths[FirstLoadable])
        /\ (Loadable = {} /\ arial_loads) => (font_pc = "done" /\ font = "arial.ttf")
        /\ (Loadable = {} /\ ~arial_loads /\ default_loads)
              => (font_pc = "done" /\ font = "load_default")
        /\ font_pc = "raised" <=> (Loadable = {} /\ ~arial_loads /\ ~default_loads)

C9_Witness ==
    /\ font_pc = "done"
    /\ font_files[font_paths[1]] = "missing"
    /\ font_files[font_paths[2]] = "corrupt"
    /\ font_files[font_paths[3]] = "ok"
    /\ font_files[font_paths[4]] = "ok"
    /\ font = font_paths[3]

\* C10: applying the compositor to its own output with the same mask and
\* threshold returns a field equal to that output, and every sample the
\* second application masks is already 1.0, so it removes no stipple.
C10_Idempotent ==
    (Returned /\ calls >= 2) =>
        /\ Output.shape = Stippled.shape
        /\ Output.data = Stippled.data
        /\ \A i \in Cells : Masked(i) => Stippled.data[i] = White
        /\ removed_count = 0

C10_Witness ==
    /\ Returned
    /\ calls = 2
    /\ ret[1] # stipple_img
    /\ \E r \in 1..2, i \in Cells :
          /\ heap[r].shape = Output.shape
          /\ heap[r].data[i] = Black
          /\ Masked(i)
          /\ Output.data[i] = White
    /\ \E i \in Cells : ~Masked(i) /\ Output.data[i] = Black
====
